---- MODULE Spec2Model ----
(***************************************************************************)
(* A model of the profanitybuster detector: the normalizer, the Trie and   *)
(* Aho-Corasick matchers, the phrase trie, the approximate scanner, the    *)
(* language registry and the detect / sanitize orchestration.              *)
(*                                                                         *)
(* A text is a sequence of UTF-16 code units, the unit the source indexes  *)
(* by (text[i], text.length).  A code unit is an atom named by a string:   *)
(*   "a" "b" "s" "i" "e" "f"  lower-case letters                           *)
(*   "A" "I"                  upper-case letters                           *)
(*   "1"                      digit one, a key of CONFUSABLE_MAP           *)
(*   "*"                      asterisk: a separator and the mask pattern   *)
(*   ","                      comma: neither word character nor separator  *)
(*   " "                      space                                        *)
(*   "zwsp"                   U+200B zero width space                      *)
(*   "eacute"                 U+00E9, decomposes to e + U+0301             *)
(*   "acute" "cdot"           U+0301, U+0307 combining marks               *)
(*   "filig"                  U+FB01 ligature fi                           *)
(*   "Idot"                   U+0130 capital I with dot above              *)
(*   "han" "kana" "hangul" "cyrillic" "arabic" "hebrew" "devanagari" "thai" *)
(*                            one letter of each script langAutoDetect     *)
(*                            tests for                                    *)
(*   "jamo"                   a conjoining Hangul jamo (U+1100 block): a    *)
(*                            Hangul syllable decomposes to two or three   *)
(***************************************************************************)
EXTENDS Integers, Sequences, FiniteSets, TLC

VARIABLES
    config,             \* ProfanityBuster.config
    languageWordlists,  \* Map<string, Set<string>>, in insertion order
    languageTries,      \* Map<string, Trie>
    languageAutomata,   \* Map<string, AhoCorasick>
    phraseTrie,         \* PhraseTrie
    phraseList,         \* Set<string[]>, a set of array references in insertion order
    pc,                 \* "idle", or what the caller holds: the result of the last call
    call,               \* the last call: its operation and arguments
    ret                 \* what that call returned

vars == <<config, languageWordlists, languageTries, languageAutomata,
          phraseTrie, phraseList, pc, call, ret>>

----------------------------------------------------------------------------
(* Sequences *)

Range(s) == {s[i] : i \in 1..Len(s)}

Contains(s, x) == \E i \in 1..Len(s) : s[i] = x

RECURSIVE Flatten(_)
Flatten(ss) == IF ss = <<>> THEN <<>> ELSE Head(ss) \o Flatten(Tail(ss))

\* s.slice(from, to) with 0-based, end-exclusive, clamped indices
Slice(s, from, to) ==
    LET lo == IF from < 0 THEN 0 ELSE from
        hi == IF to > Len(s) THEN Len(s) ELSE to
    IN  IF hi <= lo THEN <<>> ELSE SubSeq(s, lo + 1, hi)

Min2(a, b) == IF a < b THEN a ELSE b

Max2(a, b) == IF a > b THEN a ELSE b

\* All sequences over S of length at most n
SeqsUpTo(S, n) == UNION {[1..k -> S] : k \in 0..n}

----------------------------------------------------------------------------
(* Unicode facts the source relies on *)

\* /[\p{L}\p{N}_]/u
WORD_CHAR(c) ==
    c \in {"a", "b", "s", "i", "e", "f", "A", "I", "1", "_", "eacute", "filig", "Idot",
           "han", "kana", "hangul", "jamo", "cyrillic", "arabic", "hebrew", "devanagari",
           "thai"}

\* String.prototype.toLowerCase on one code unit: U+0130 lower-cases to i + U+0307
LowerCaseOf(c) ==
    CASE c = "A" -> <<"a">>
      [] c = "I" -> <<"i">>
      [] c = "Idot" -> <<"i", "cdot">>
      [] OTHER -> <<c>>

toLowerCase(text) == Flatten([i \in 1..Len(text) |-> LowerCaseOf(text[i])])

\* ch.normalize('NFKD') of one code unit
NFKD(c) ==
    CASE c = "eacute" -> <<"e", "acute">>
      [] c = "filig" -> <<"f", "i">>
      [] c = "Idot" -> <<"I", "cdot">>
      [] c = "hangul" -> <<"jamo", "jamo">>
      [] OTHER -> <<c>>

\* text.normalize('NFKC'): compatibility decomposition, then canonical composition
RECURSIVE Compose(_)
Compose(t) ==
    IF Len(t) < 2 THEN t
    ELSE IF t[1] = "e" /\ t[2] = "acute" THEN <<"eacute">> \o Compose(Tail(Tail(t)))
    ELSE IF t[1] = "I" /\ t[2] = "cdot" THEN <<"Idot">> \o Compose(Tail(Tail(t)))
    ELSE <<t[1]>> \o Compose(Tail(t))

NFKC(text) == Compose(Flatten([i \in 1..Len(text) |-> NFKD(text[i])]))

\* COMBINING_MARKS_REGEX, U+0300 to U+036F
COMBINING_MARKS == {"acute", "cdot"}

\* the zero-width characters normalizeForDetection tests for
INVISIBLE == {"zwsp"}

CONFUSABLE_MAP(c) == IF c = "1" THEN "i" ELSE c

----------------------------------------------------------------------------
(* core/normalization: normalizeForDetection *)

\* One iteration of the per-character loop: what it appends to out
NormalizeChar(c, options) ==
    IF options.stripInvisible /\ c \in INVISIBLE /\ ~options.lengthPreserving
    THEN <<>>
    ELSE
        LET ch1 == IF options.stripInvisible /\ c \in INVISIBLE THEN " " ELSE c
            base == SelectSeq(NFKD(ch1), LAMBDA x : x \notin COMBINING_MARKS)
            ch2 == IF ~options.stripDiacritics THEN <<ch1>>
                   ELSE IF options.lengthPreserving
                        THEN (IF Len(base) > 0 THEN <<base[1]>> ELSE <<ch1>>)
                        ELSE base
        IN  IF options.confusableMapping /\ Len(ch2) = 1
            THEN <<CONFUSABLE_MAP(ch2[1])>>
            ELSE ch2

normalizeForDetection(input, options) ==
    LET lowered == IF options.caseSensitive THEN input ELSE toLowerCase(input)
        text == IF options.useNFKC /\ ~options.lengthPreserving THEN NFKC(lowered) ELSE lowered
    IN  IF options.stripDiacritics \/ options.confusableMapping
           \/ (options.useNFKC /\ options.lengthPreserving) \/ options.stripInvisible
        THEN Flatten([i \in 1..Len(text) |-> NormalizeChar(text[i], options)])
        ELSE text

normalizeWordWithOptions(input, options) == normalizeForDetection(input, options)

----------------------------------------------------------------------------
(* core/trie: a prefix tree.  A node is named by the path that leads to it  *)
(* from the root, so node.children.get(ch) is the node Append(node, ch).    *)

NewTrie == [nodes |-> {<<>>}, terminal |-> {}]

TrieInsert(trie, word) ==
    IF word = <<>> THEN trie
    ELSE [nodes |-> trie.nodes \cup {SubSeq(word, 1, k) : k \in 1..Len(word)},
          terminal |-> trie.terminal \cup {word}]

RECURSIVE TrieInsertAll(_, _)
TrieInsertAll(trie, words) ==
    IF words = <<>> THEN trie
    ELSE TrieInsertAll(TrieInsert(trie, Head(words)), Tail(words))

\* A faulty TrieWalk: the walk ends at the first terminal node it accepts, so
\* the shortest word is reported
RECURSIVE TrieWalkFirstTerminal(_, _, _, _, _, _, _)
TrieWalkFirstTerminal(trie, text, wholeWordsOnly, separators, node, j, last) ==
    IF j >= Len(text) \/ last # -1 THEN last
    ELSE IF text[j + 1] \in separators
         THEN TrieWalkFirstTerminal(trie, text, wholeWordsOnly, separators, node, j + 1, last)
    ELSE LET next == Append(node, text[j + 1])
         IN  IF next \notin trie.nodes THEN last
             ELSE LET accepted ==
                          IF next \notin trie.terminal THEN last
                          ELSE IF wholeWordsOnly /\ j + 1 < Len(text) /\ WORD_CHAR(text[j + 2])
                               THEN last
                               ELSE j
                  IN  TrieWalkFirstTerminal(trie, text, wholeWordsOnly, separators, next,
                                            j + 1, accepted)

\* The inner while loop of findAllMatches from position j in node `node`:
\* the value of lastTerminalEndIndex when it ends.
RECURSIVE TrieWalk(_, _, _, _, _, _, _)
TrieWalk(trie, text, wholeWordsOnly, separators, node, j, last) ==
    IF j >= Len(text) THEN last
    ELSE IF text[j + 1] \in separators
         THEN TrieWalk(trie, text, wholeWordsOnly, separators, node, j + 1, last)
    ELSE LET next == Append(node, text[j + 1])
         IN  IF next \notin trie.nodes THEN last
             ELSE LET accepted ==
                          IF next \notin trie.terminal THEN last
                          ELSE IF wholeWordsOnly /\ j + 1 < Len(text) /\ WORD_CHAR(text[j + 2])
                               THEN last
                               ELSE j
                  IN  TrieWalk(trie, text, wholeWordsOnly, separators, next, j + 1, accepted)

\* A faulty TrieLastTerminal: the word boundary to the left of the start is
\* not looked at
TrieLastTerminalNoLeftBoundary(trie, text, wholeWordsOnly, separators, startIndex) ==
    IF text[startIndex + 1] \in separators THEN -1
    ELSE TrieWalk(trie, text, wholeWordsOnly, separators, <<>>, startIndex, -1)

\* lastTerminalEndIndex for one startIndex, -1 when the start is skipped
TrieLastTerminal(trie, text, wholeWordsOnly, separators, startIndex) ==
    IF text[startIndex + 1] \in separators THEN -1
    ELSE IF wholeWordsOnly /\ startIndex > 0 /\ WORD_CHAR(text[startIndex]) THEN -1
    ELSE TrieWalk(trie, text, wholeWordsOnly, separators, <<>>, startIndex, -1)

TrieFindAllMatches(trie, text, wholeWordsOnly, separators) ==
    LET spanAt(startIndex) ==
            LET last == TrieLastTerminal(trie, text, wholeWordsOnly, separators, startIndex)
            IN  [index |-> startIndex, length |-> IF last = -1 THEN 0 ELSE last - startIndex + 1]
    IN  SelectSeq([k \in 1..Len(text) |-> spanAt(k - 1)], LAMBDA m : m.length > 0)

----------------------------------------------------------------------------
(* core/aho: the Aho-Corasick automaton.  nodes[k + 1] is the source's      *)
(* nodes[k]; children is the set of <<ch, index>> entries of the Map, whose *)
(* insertion order is the order of the indices.                             *)

NewAhoNode == [children |-> {}, fail |-> 0, terminalLengths |-> <<>>]

NewAhoCorasick == [nodes |-> <<NewAhoNode>>]

\* node.children.get(ch), -1 for undefined
AhoChild(node, ch) ==
    IF \E p \in node.children : p[1] = ch
    THEN (CHOOSE p \in node.children : p[1] = ch)[2]
    ELSE -1

RECURSIVE AhoInsertFrom(_, _, _, _)
AhoInsertFrom(nodes, word, k, nodeIndex) ==
    IF k = Len(word)
    THEN [nodes EXCEPT ![nodeIndex + 1].terminalLengths = Append(@, Len(word))]
    ELSE LET ch == word[k + 1]
             found == AhoChild(nodes[nodeIndex + 1], ch)
             nextIndex == Len(nodes)
         IN  IF found = -1
             THEN AhoInsertFrom(
                      Append([nodes EXCEPT ![nodeIndex + 1].children = @ \cup {<<ch, nextIndex>>}],
                             NewAhoNode),
                      word, k + 1, nextIndex)
             ELSE AhoInsertFrom(nodes, word, k + 1, found)

AhoInsert(ac, word) ==
    IF word = <<>> THEN ac ELSE [nodes |-> AhoInsertFrom(ac.nodes, word, 0, 0)]

RECURSIVE AhoInsertAll(_, _)
AhoInsertAll(ac, words) ==
    IF words = <<>> THEN ac ELSE AhoInsertAll(AhoInsert(ac, Head(words)), Tail(words))

\* The entries of a children Map in insertion order
RECURSIVE AhoChildrenInOrder(_)
AhoChildrenInOrder(children) ==
    IF children = {} THEN <<>>
    ELSE LET first == CHOOSE p \in children : \A q \in children : p[2] <= q[2]
         IN  <<first>> \o AhoChildrenInOrder(children \ {first})

\* while (f !== 0 && !this.nodes[f].children.has(ch)) f = this.nodes[f].fail
RECURSIVE AhoFollowFail(_, _, _)
AhoFollowFail(nodes, f, ch) ==
    IF f # 0 /\ AhoChild(nodes[f + 1], ch) = -1
    THEN AhoFollowFail(nodes, nodes[f + 1].fail, ch)
    ELSE f

\* The failure link and the inherited outputs of the child nextIndex of current on ch
AhoLinkChild(nodes, current, ch, nextIndex) ==
    LET f0 == AhoFollowFail(nodes, nodes[current + 1].fail, ch)
        f == IF AhoChild(nodes[f0 + 1], ch) # -1 /\ AhoChild(nodes[1], ch) # nextIndex
             THEN AhoChild(nodes[f0 + 1], ch)
             ELSE f0
    IN  [nodes EXCEPT ![nextIndex + 1].fail = f,
                      ![nextIndex + 1].terminalLengths = @ \o nodes[f + 1].terminalLengths]

RECURSIVE AhoLinkChildren(_, _, _)
AhoLinkChildren(nodes, current, kids) ==
    IF kids = <<>> THEN nodes
    ELSE AhoLinkChildren(AhoLinkChild(nodes, current, Head(kids)[1], Head(kids)[2]),
                         current, Tail(kids))

RECURSIVE AhoBuildLoop(_, _)
AhoBuildLoop(nodes, queue) ==
    IF queue = <<>> THEN nodes
    ELSE LET current == Head(queue)
             kids == AhoChildrenInOrder(nodes[current + 1].children)
         IN  AhoBuildLoop(AhoLinkChildren(nodes, current, kids),
                          Tail(queue) \o [k \in 1..Len(kids) |-> kids[k][2]])

AhoBuild(ac) ==
    LET roots == AhoChildrenInOrder(ac.nodes[1].children)
        nodes0 == [k \in 1..Len(ac.nodes) |->
                      IF \E p \in ac.nodes[1].children : p[2] = k - 1
                      THEN [ac.nodes[k] EXCEPT !.fail = 0]
                      ELSE ac.nodes[k]]
    IN  [nodes |-> AhoBuildLoop(nodes0, [k \in 1..Len(roots) |-> roots[k][2]])]

\* The spans one scan position i emits for the outputs of the state reached
AhoOutputsAt(text, toOriginalIndex, wholeWordsOnly, outputs, i) ==
    LET spanOf(len) ==
            LET startCompact == i - len + 1
                startOriginal == IF startCompact < 0 THEN -1 ELSE toOriginalIndex[startCompact + 1]
                endOriginal == toOriginalIndex[i + 1]
                leftOk == startOriginal = 0 \/ ~WORD_CHAR(text[startOriginal])
                rightOk == endOriginal + 1 >= Len(text) \/ ~WORD_CHAR(text[endOriginal + 2])
            IN  IF startCompact < 0 THEN [index |-> 0, length |-> 0]
                ELSE IF wholeWordsOnly /\ (~leftOk \/ ~rightOk) THEN [index |-> 0, length |-> 0]
                ELSE [index |-> startOriginal, length |-> endOriginal - startOriginal + 1]
    IN  SelectSeq([k \in 1..Len(outputs) |-> spanOf(outputs[k])], LAMBDA m : m.length > 0)

RECURSIVE AhoScan(_, _, _, _, _, _, _)
AhoScan(nodes, text, scanText, toOriginalIndex, wholeWordsOnly, i, state) ==
    IF i >= Len(scanText) THEN <<>>
    ELSE LET ch == scanText[i + 1]
             from == AhoFollowFail(nodes, state, ch)
             next == AhoChild(nodes[from + 1], ch)
             state1 == IF next # -1 THEN next ELSE from
         IN  AhoOutputsAt(text, toOriginalIndex, wholeWordsOnly,
                          nodes[state1 + 1].terminalLengths, i)
             \o AhoScan(nodes, text, scanText, toOriginalIndex, wholeWordsOnly, i + 1, state1)

AhoFindAllMatches(ac, text, wholeWordsOnly, separators) ==
    LET all == [k \in 1..Len(text) |-> k - 1]
        indexMap == IF separators # {}
                    THEN SelectSeq(all, LAMBDA k : text[k + 1] \notin separators)
                    ELSE all
        scanText == [k \in 1..Len(indexMap) |-> text[indexMap[k] + 1]]
    IN  AhoScan(ac.nodes, text, scanText, indexMap, wholeWordsOnly, 0, 0)

----------------------------------------------------------------------------
(* core/phraseTrie: a prefix tree over tokens, nodes named by their path    *)

NewPhraseTrie == [nodes |-> {<<>>}, terminal |-> {}]

PhraseInsert(trie, tokens) ==
    IF tokens = <<>> THEN trie
    ELSE [nodes |-> trie.nodes \cup {SubSeq(tokens, 1, k) : k \in 1..Len(tokens)},
          terminal |-> trie.terminal \cup {tokens}]

RECURSIVE PhraseInsertAll(_, _)
PhraseInsertAll(trie, phrases) ==
    IF phrases = <<>> THEN trie
    ELSE PhraseInsertAll(PhraseInsert(trie, Head(phrases)), Tail(phrases))

\* The inner for loop of findAllMatchesForTokens from token i: the end token
\* index of the span pushed for this start, -1 when none is pushed
RECURSIVE PhraseWalk(_, _, _, _, _, _, _)
PhraseWalk(trie, tokens, stopwords, maxSkips, node, i, skipsUsed) ==
    IF i >= Len(tokens) THEN -1
    ELSE LET next == Append(node, tokens[i + 1])
         IN  IF next \in trie.nodes
             THEN IF next \in trie.terminal THEN i
                  ELSE PhraseWalk(trie, tokens, stopwords, maxSkips, next, i + 1, skipsUsed)
             ELSE IF stopwords # {} /\ tokens[i + 1] \in stopwords /\ skipsUsed < maxSkips
                  THEN PhraseWalk(trie, tokens, stopwords, maxSkips, node, i + 1, skipsUsed + 1)
                  ELSE -1

findAllMatchesForTokens(trie, tokens, stopwords, maxSkips) ==
    LET spanAt(start) ==
            [startTokenIndex |-> start,
             endTokenIndex |-> PhraseWalk(trie, tokens, stopwords, maxSkips, <<>>, start, 0)]
    IN  SelectSeq([k \in 1..Len(tokens) |-> spanAt(k - 1)], LAMBDA sp : sp.endTokenIndex # -1)

----------------------------------------------------------------------------
(* Map and Set values.  A Map or Set whose iteration order the source reads *)
(* is a sequence in insertion order; languageTries and languageAutomata are *)
(* only looked up by key and are functions.                                 *)

NoEntries == [k \in {} |-> k]

MapHas(m, key) == \E i \in 1..Len(m) : m[i].key = key

MapGet(m, key) == m[CHOOSE i \in 1..Len(m) : m[i].key = key].value

MapSet(m, key, value) ==
    IF MapHas(m, key)
    THEN [i \in 1..Len(m) |-> IF m[i].key = key THEN [key |-> key, value |-> value] ELSE m[i]]
    ELSE Append(m, [key |-> key, value |-> value])

FnSet(f, key, value) == [k \in DOMAIN f \cup {key} |-> IF k = key THEN value ELSE f[k]]

FnDelete(f, key) == [k \in DOMAIN f \ {key} |-> f[k]]

SetAdd(set, x) == IF Contains(set, x) THEN set ELSE Append(set, x)

SetDelete(set, x) == SelectSeq(set, LAMBDA y : y # x)

RECURSIVE SetOf(_)
SetOf(items) ==
    IF items = <<>> THEN <<>>
    ELSE SetAdd(SetOf(SubSeq(items, 1, Len(items) - 1)), items[Len(items)])

----------------------------------------------------------------------------
(* index.ts: the language pack table, the configuration                     *)

\* languages/en, whose words the tests name: a pack of one word
EN_WORDS == << <<"a", "s">> >>

\* languages/index.ts, cut down to one pack besides en; "xx" is a code without a pack
languageWordMap == [en |-> EN_WORDS, es |-> << <<"s", "a">> >>]

allLanguageCodes == <<"en", "es">>

DEFAULT_CONFIG ==
    [masking |-> [enabled |-> TRUE, pattern |-> <<"*">>, preserveLength |-> TRUE,
                  preserveFirst |-> TRUE, preserveLast |-> FALSE],
     detection |-> [levenshteinDistance |-> 1,
                    caseSensitive |-> FALSE,
                    wholeWordsOnly |-> FALSE,
                    customWords |-> <<>>,
                    confusableMapping |-> TRUE,
                    ignoreSeparators |-> <<" ", ".", "-", "_", "*">>,
                    stripDiacritics |-> TRUE,
                    useNFKC |-> FALSE,
                    enableInflections |-> TRUE,
                    inflectionSuffixes |-> << <<"s">>, <<"e", "s">>, <<"e", "d">>,
                                              <<"i", "n", "g">>, <<"e", "r">>,
                                              <<"e", "r", "s">> >>,
                    allowlist |-> <<>>,
                    tokenBoundedFuzzy |-> TRUE,
                    phraseStopwords |-> << <<"o", "f">>, <<"t", "h", "e">>, <<"a">>,
                                           <<"a", "n">>, <<"a", "n", "d">>, <<"t", "o">> >>,
                    phraseMaxSkips |-> 2,
                    algorithm |-> "trie"],
     languages |-> [enabled |-> <<"en">>, autoDetect |-> FALSE, fallback |-> "en"]]

\* { ...base, ...override } of two records
Spread(base, override) ==
    [k \in DOMAIN base \cup DOMAIN override |->
        IF k \in DOMAIN override THEN override[k] ELSE base[k]]

\* override is a record with any of the fields masking, detection, languages;
\* languages is a LanguageConfig, or [array |-> codes] for a string[]
mergeConfig(base, override) ==
    LET has(section) == section \in DOMAIN override
        languages ==
            IF ~has("languages") THEN base.languages
            ELSE IF "array" \in DOMAIN override.languages
                 THEN [base.languages EXCEPT !.enabled = override.languages.array]
                 ELSE Spread(base.languages, override.languages)
    IN  [masking |-> IF has("masking") THEN Spread(base.masking, override.masking)
                     ELSE base.masking,
         detection |-> IF has("detection") THEN Spread(base.detection, override.detection)
                       ELSE base.detection,
         languages |-> languages]

----------------------------------------------------------------------------
(* index.ts: the registry.  `this` is the record of the instance's fields   *)

normalizeWord(this, word) ==
    normalizeWordWithOptions(word,
        [caseSensitive |-> this.config.detection.caseSensitive,
         confusableMapping |-> this.config.detection.confusableMapping,
         stripDiacritics |-> this.config.detection.stripDiacritics,
         useNFKC |-> this.config.detection.useNFKC,
         lengthPreserving |-> TRUE,
         stripInvisible |-> TRUE])

expandWordVariants(this, word) ==
    LET normalized == normalizeWord(this, word)
        suffixes == this.config.detection.inflectionSuffixes
    IN  IF this.config.detection.enableInflections
        THEN SetOf(<<normalized>> \o [k \in 1..Len(suffixes) |-> normalized \o suffixes[k]])
        ELSE <<normalized>>

\* The words rebuildMatcherForLanguage inserts, in order
MatcherWords(this, words) ==
    Flatten([k \in 1..Len(words) |-> expandWordVariants(this, words[k])])

\* A faulty rebuildMatcherForLanguage: the automaton is stored as the inserts
\* left it, without build
rebuildMatcherForLanguageUnbuilt(this, code) ==
    LET words == IF MapHas(this.languageWordlists, code)
                 THEN MapGet(this.languageWordlists, code)
                 ELSE <<>>
    IN  IF this.config.detection.algorithm = "aho"
        THEN [this EXCEPT
                 !.languageTries = FnDelete(@, code),
                 !.languageAutomata =
                     FnSet(@, code, AhoInsertAll(NewAhoCorasick, MatcherWords(this, words)))]
        ELSE [this EXCEPT
                 !.languageAutomata = FnDelete(@, code),
                 !.languageTries =
                     FnSet(@, code, TrieInsertAll(NewTrie, MatcherWords(this, words)))]

rebuildMatcherForLanguage(this, code) ==
    LET words == IF MapHas(this.languageWordlists, code)
                 THEN MapGet(this.languageWordlists, code)
                 ELSE <<>>
    IN  IF this.config.detection.algorithm = "aho"
        THEN [this EXCEPT
                 !.languageTries = FnDelete(@, code),
                 !.languageAutomata =
                     FnSet(@, code, AhoBuild(AhoInsertAll(NewAhoCorasick, MatcherWords(this, words))))]
        ELSE [this EXCEPT
                 !.languageAutomata = FnDelete(@, code),
                 !.languageTries =
                     FnSet(@, code, TrieInsertAll(NewTrie, MatcherWords(this, words)))]

\* new Set(words.map((w) => this.normalizeWord(w)))
NormalizedSet(this, words) == SetOf([k \in 1..Len(words) |-> normalizeWord(this, words[k])])

RECURSIVE loadLanguagePacks(_, _)
loadLanguagePacks(this, codes) ==
    IF codes = <<>> THEN this
    ELSE LET code == Head(codes)
             words == IF code = "en" THEN NormalizedSet(this, EN_WORDS) ELSE <<>>
             stored == [this EXCEPT !.languageWordlists = MapSet(@, code, words)]
         IN  loadLanguagePacks(rebuildMatcherForLanguage(stored, code), Tail(codes))

addCustomWords(this, words) ==
    IF words = <<>> THEN this
    ELSE LET targetCode == this.config.languages.fallback
             target == IF MapHas(this.languageWordlists, targetCode)
                       THEN MapGet(this.languageWordlists, targetCode)
                       ELSE <<>>
             added == SetOf(target \o MatcherWords(this, words))
         IN  rebuildMatcherForLanguage(
                 [this EXCEPT !.languageWordlists = MapSet(@, targetCode, added)], targetCode)

constructor(userConfig) ==
    LET cfg == mergeConfig(DEFAULT_CONFIG, userConfig)
        fresh == [config |-> cfg,
                  languageWordlists |-> <<>>,
                  languageTries |-> NoEntries,
                  languageAutomata |-> NoEntries,
                  phraseTrie |-> NewPhraseTrie,
                  phraseList |-> <<>>]
    IN  addCustomWords(loadLanguagePacks(fresh, cfg.languages.enabled), cfg.detection.customWords)

\* existingSet && existingSet.size > 0 && (languageTries.has(code) || languageAutomata.has(code))
AlreadyLoaded(this, code) ==
    /\ MapHas(this.languageWordlists, code)
    /\ Len(MapGet(this.languageWordlists, code)) > 0
    /\ (code \in DOMAIN this.languageTries \/ code \in DOMAIN this.languageAutomata)

Enable(this, code) ==
    IF Contains(this.config.languages.enabled, code) THEN this
    ELSE [this EXCEPT !.config.languages.enabled = Append(@, code)]

RECURSIVE loadLanguages(_, _)
loadLanguages(this, codes) ==
    IF codes = <<>> THEN this
    ELSE LET code == Head(codes)
             known == code = "en" \/ code \in DOMAIN languageWordMap
             words == IF code = "en" THEN EN_WORDS ELSE languageWordMap[code]
             after ==
                 IF AlreadyLoaded(this, code) THEN Enable(this, code)
                 ELSE IF ~known
                      THEN rebuildMatcherForLanguage(
                               [this EXCEPT !.languageWordlists = MapSet(@, code, <<>>)], code)
                      ELSE Enable(rebuildMatcherForLanguage(
                               [this EXCEPT !.languageWordlists =
                                   MapSet(@, code, NormalizedSet(this, words))], code), code)
         IN  loadLanguages(after, Tail(codes))

RECURSIVE ensureLoadedForCodes(_, _)
ensureLoadedForCodes(this, codes) ==
    IF codes = <<>> THEN this
    ELSE LET code == Head(codes)
             words == IF code = "en" THEN EN_WORDS
                      ELSE IF code \in DOMAIN languageWordMap THEN languageWordMap[code]
                      ELSE <<>>
             after ==
                 IF AlreadyLoaded(this, code) \/ words = <<>> THEN this
                 ELSE rebuildMatcherForLanguage(
                          [this EXCEPT !.languageWordlists =
                              MapSet(@, code, NormalizedSet(this, words))], code)
         IN  ensureLoadedForCodes(after, Tail(codes))

rebuildPhraseTrie(this) ==
    [this EXCEPT !.phraseTrie = PhraseInsertAll(@, this.phraseList)]

\* A faulty addWord: the language's word set is replaced by the new word
\* instead of being extended with it
addWordReplacing(this, word, language) ==
    LET lang == IF language = "undefined" THEN this.config.languages.fallback ELSE language
    IN  rebuildMatcherForLanguage(
            [this EXCEPT !.languageWordlists =
                MapSet(@, lang, <<normalizeWord(this, word)>>)], lang)

addWord(this, word, language) ==
    LET lang == IF language = "undefined" THEN this.config.languages.fallback ELSE language
        set == IF MapHas(this.languageWordlists, lang)
               THEN MapGet(this.languageWordlists, lang)
               ELSE <<>>
    IN  rebuildMatcherForLanguage(
            [this EXCEPT !.languageWordlists =
                MapSet(@, lang, SetAdd(set, normalizeWord(this, word)))], lang)

removeWord(this, word, language) ==
    LET lang == IF language = "undefined" THEN this.config.languages.fallback ELSE language
    IN  IF ~MapHas(this.languageWordlists, lang) THEN this
        ELSE rebuildMatcherForLanguage(
                 [this EXCEPT !.languageWordlists =
                     MapSet(@, lang, SetDelete(MapGet(this.languageWordlists, lang),
                                               normalizeWord(this, word)))], lang)

setLanguages(this, enabled, fallback) ==
    LET named == [this EXCEPT !.config.languages.enabled = enabled,
                              !.config.languages.fallback =
                                  IF fallback = "undefined" THEN @ ELSE fallback]
    IN  loadLanguagePacks(named, enabled)

RECURSIVE RebuildAll(_, _)
RebuildAll(this, codes) ==
    IF codes = <<>> THEN this
    ELSE RebuildAll(rebuildMatcherForLanguage(this, Head(codes)), Tail(codes))

setAlgorithm(this, algorithm) ==
    RebuildAll([this EXCEPT !.config.detection.algorithm = algorithm],
               this.config.languages.enabled)

\* /[\p{L}\p{N}_]+/gu over text from position i; run is the start of the token being read
RECURSIVE TokensFrom(_, _, _)
TokensFrom(text, i, run) ==
    IF i >= Len(text)
    THEN IF run = -1 THEN <<>>
         ELSE <<[value |-> Slice(text, run, i), start |-> run, endExclusive |-> i]>>
    ELSE IF WORD_CHAR(text[i + 1])
         THEN TokensFrom(text, i + 1, IF run = -1 THEN i ELSE run)
         ELSE IF run = -1 THEN TokensFrom(text, i + 1, -1)
              ELSE <<[value |-> Slice(text, run, i), start |-> run, endExclusive |-> i]>>
                   \o TokensFrom(text, i + 1, -1)

tokenizeWithOffsets(text) == TokensFrom(text, 0, -1)

TokenValues(tokens) == [k \in 1..Len(tokens) |-> tokens[k].value]

PhraseTokens(this, phrase) == TokenValues(tokenizeWithOffsets(normalizeWord(this, phrase)))

addPhrase(this, phrase) ==
    LET tokens == PhraseTokens(this, phrase)
    IN  IF tokens = <<>> THEN this
        ELSE rebuildPhraseTrie([this EXCEPT !.phraseList = Append(@, tokens)])

removePhrase(this, phrase) ==
    LET tokens == PhraseTokens(this, phrase)
        list == this.phraseList
        hit == IF Contains(list, tokens)
               THEN CHOOSE i \in 1..Len(list) : list[i] = tokens /\ \A j \in 1..(i - 1) : list[j] # tokens
               ELSE 0
    IN  IF tokens = <<>> THEN this
        ELSE rebuildPhraseTrie(
                 [this EXCEPT !.phraseList =
                     IF hit = 0 THEN @
                     ELSE SubSeq(@, 1, hit - 1) \o SubSeq(@, hit + 1, Len(@))])

----------------------------------------------------------------------------
(* core/langAutoDetect *)

inferLikelyLanguageCodes(text) ==
    LET has(c) == Contains(text, c)
    IN  SetOf((IF has("han") THEN <<"zh">> ELSE <<>>)
              \o (IF has("kana") THEN <<"ja">> ELSE <<>>)
              \o (IF has("hangul") THEN <<"ko">> ELSE <<>>)
              \o (IF has("cyrillic") THEN <<"ru">> ELSE <<>>)
              \o (IF has("arabic") THEN <<"ar", "fa">> ELSE <<>>)
              \o (IF has("hebrew") THEN <<"he">> ELSE <<>>)
              \o (IF has("devanagari") THEN <<"hi">> ELSE <<>>)
              \o (IF has("thai") THEN <<"th">> ELSE <<>>))

----------------------------------------------------------------------------
(* index.ts: detect *)

\* The entries of a Map<code, Set> built by set(code, list) for the codes in order
collectWordlistsForCodes(this, codes) ==
    LET kept == SelectSeq(SetOf(codes),
                    LAMBDA c : MapHas(this.languageWordlists, c)
                               /\ Len(MapGet(this.languageWordlists, c)) > 0)
    IN  [k \in 1..Len(kept) |-> [key |-> kept[k], value |-> MapGet(this.languageWordlists, kept[k])]]

\* The codes returned, and the instance after the call
selectAutoDetectLanguages(this, text) ==
    LET likely == inferLikelyLanguageCodes(text)
        keys == [k \in 1..Len(this.languageWordlists) |-> this.languageWordlists[k].key]
        loaded == SelectSeq(keys, LAMBDA c : Len(MapGet(this.languageWordlists, c)) > 0)
        candidates == SelectSeq(likely, LAMBDA c : Contains(loaded, c))
    IN  IF Len(candidates) > 0 THEN [codes |-> candidates, this |-> this]
        ELSE IF Len(loaded) > 0 THEN [codes |-> loaded, this |-> this]
        ELSE IF this.config.languages.autoDetect
             THEN [codes |-> allLanguageCodes, this |-> ensureLoadedForCodes(this, allLanguageCodes)]
             ELSE [codes |-> this.config.languages.enabled, this |-> this]

ToMatches(textNormalized, found, languageCode) ==
    [k \in 1..Len(found) |->
        [word |-> Slice(textNormalized, found[k].index, found[k].index + found[k].length),
         index |-> found[k].index, length |-> found[k].length, language |-> languageCode]]

\* What the exact matcher of one language returns; nothing when the matcher of the
\* configured kind is missing (continue)
ExactMatchesOf(this, textNormalized, languageCode) ==
    LET separators == Range(this.config.detection.ignoreSeparators)
        whole == this.config.detection.wholeWordsOnly
    IN  IF this.config.detection.algorithm = "aho"
        THEN IF languageCode \in DOMAIN this.languageAutomata
             THEN AhoFindAllMatches(this.languageAutomata[languageCode], textNormalized,
                                    whole, separators)
             ELSE <<>>
        ELSE IF languageCode \in DOMAIN this.languageTries
             THEN TrieFindAllMatches(this.languageTries[languageCode], textNormalized,
                                     whole, separators)
             ELSE <<>>

RECURSIVE ExactStage(_, _, _)
ExactStage(this, textNormalized, wordlists) ==
    IF wordlists = <<>> THEN <<>>
    ELSE LET languageCode == Head(wordlists).key
             matches == ToMatches(textNormalized,
                                  ExactMatchesOf(this, textNormalized, languageCode),
                                  languageCode)
         IN  IF Len(matches) > 0 THEN matches
             ELSE ExactStage(this, textNormalized, Tail(wordlists))

\* The first suffix of the alternation that matches text at position at, <<>> when none
RECURSIVE FirstSuffixAt(_, _, _)
FirstSuffixAt(text, suffixes, at) ==
    IF suffixes = <<>> THEN <<>>
    ELSE IF Slice(text, at, at + Len(Head(suffixes))) = Head(suffixes)
         THEN Head(suffixes)
         ELSE FirstSuffixAt(text, Tail(suffixes), at)

\* The exec loop of new RegExp(base(?:suffix|...)?, 'g') from lastIndex.  An empty
\* match leaves lastIndex where it is, and the loop never ends: diverges.
RECURSIVE findWordOccurrencesWithInflectionsFrom(_, _, _, _, _)
findWordOccurrencesWithInflectionsFrom(text, base, suffixes, wholeWordsOnly, lastIndex) ==
    LET starts == {k \in lastIndex..(Len(text) - Len(base)) : Slice(text, k, k + Len(base)) = base}
    IN  IF starts = {} THEN [indices |-> <<>>, diverges |-> FALSE]
        ELSE LET start == CHOOSE k \in starts : \A other \in starts : k <= other
                 end == start + Len(base) + Len(FirstSuffixAt(text, suffixes, start + Len(base)))
                 leftOk == start = 0 \/ ~WORD_CHAR(text[start])
                 rightOk == end >= Len(text) \/ ~WORD_CHAR(text[end + 1])
                 rest == findWordOccurrencesWithInflectionsFrom(text, base, suffixes,
                                                                wholeWordsOnly, end)
             IN  IF end = start THEN [indices |-> <<>>, diverges |-> TRUE]
                 ELSE IF wholeWordsOnly /\ (~leftOk \/ ~rightOk) THEN rest
                 ELSE [rest EXCEPT !.indices = <<start>> \o @]

findWordOccurrencesWithInflections(text, base, suffixes, wholeWordsOnly) ==
    findWordOccurrencesWithInflectionsFrom(text, base, suffixes, wholeWordsOnly, 0)

\* The pairs (language, word) a stage walks: every word of every wordlist, in order
WordsInOrder(wordlists) ==
    Flatten([k \in 1..Len(wordlists) |->
                [j \in 1..Len(wordlists[k].value) |->
                    [language |-> wordlists[k].key, word |-> wordlists[k].value[j]]]])

\* The inflection scan over the remaining words: matches is what was pushed so far,
\* and covered is read off it (every pushed match adds its key)
RECURSIVE InflectionStage(_, _, _, _)
InflectionStage(this, textNormalized, todo, matches) ==
    IF todo = <<>> THEN [matches |-> matches, diverges |-> FALSE]
    ELSE LET word == Head(todo).word
             occ == findWordOccurrencesWithInflections(
                        textNormalized, word, this.config.detection.inflectionSuffixes,
                        this.config.detection.wholeWordsOnly)
             covered == {<<matches[k].index, matches[k].length>> : k \in 1..Len(matches)}
             fresh == SelectSeq(SetOf(occ.indices), LAMBDA index : <<index, Len(word)>> \notin covered)
             pushed == [k \in 1..Len(fresh) |->
                           [word |-> word, index |-> fresh[k], length |-> Len(word),
                            language |-> Head(todo).language]]
         IN  IF occ.diverges THEN [matches |-> matches, diverges |-> TRUE]
             ELSE InflectionStage(this, textNormalized, Tail(todo), matches \o pushed)

\* tokens.join(' ')
RECURSIVE JoinTokens(_)
JoinTokens(tokens) ==
    IF Len(tokens) = 0 THEN <<>>
    ELSE IF Len(tokens) = 1 THEN tokens[1]
    ELSE tokens[1] \o <<" ">> \o JoinTokens(Tail(tokens))

PhraseStage(this, textNormalized) ==
    LET tokens == tokenizeWithOffsets(textNormalized)
        tokenValues == TokenValues(tokens)
        spans == findAllMatchesForTokens(this.phraseTrie, tokenValues,
                                         Range(this.config.detection.phraseStopwords),
                                         this.config.detection.phraseMaxSkips)
        span == spans[1]
        start == tokens[span.startTokenIndex + 1].start
        endExclusive == tokens[span.endTokenIndex + 1].endExclusive
    IN  IF spans = <<>> THEN <<>>
        ELSE <<[word |-> JoinTokens(SubSeq(tokenValues, span.startTokenIndex + 1,
                                           span.endTokenIndex + 1)),
                index |-> start, length |-> Max2(0, endExclusive - start),
                language |-> this.config.languages.fallback]>>

RECURSIVE levenshtein(_, _)
levenshtein(a, b) ==
    IF Len(a) = 0 THEN Len(b)
    ELSE IF Len(b) = 0 THEN Len(a)
    ELSE LET a1 == SubSeq(a, 1, Len(a) - 1)
             b1 == SubSeq(b, 1, Len(b) - 1)
             cost == IF a[Len(a)] = b[Len(b)] THEN 0 ELSE 1
         IN  Min2(Min2(levenshtein(a1, b) + 1, levenshtein(a, b1) + 1),
                  levenshtein(a1, b1) + cost)

\* index is the first offset of least distance; distance is Infinity, here -1, when
\* the window is shorter than the target
findMinDistanceInWindow(window, target) ==
    LET offsets == 0..(Len(window) - Len(target))
        dist(k) == levenshtein(Slice(window, k, k + Len(target)), target)
    IN  IF offsets = {} THEN [index |-> 0, distance |-> -1]
        ELSE LET best == CHOOSE k \in offsets :
                             /\ \A other \in offsets : dist(k) <= dist(other)
                             /\ \A other \in offsets : other < k => dist(other) > dist(k)
             IN  [index |-> best, distance |-> dist(best)]

\* A faulty scaledMaxDistance: the configured distance, whatever the word's length
scaledMaxDistanceUnscaled(this, word) == Max2(0, this.config.detection.levenshteinDistance)

scaledMaxDistance(this, word) ==
    Max2(0, Min2(this.config.detection.levenshteinDistance, Len(word) \div 5))

RECURSIVE findApproximateOccurrenceFrom(_, _, _, _, _, _)
findApproximateOccurrenceFrom(this, text, word, maxDistance, wholeWordsOnly, i) ==
    IF i > Len(text) - Len(word) THEN -1
    ELSE LET skip == this.config.detection.tokenBoundedFuzzy /\ i > 0 /\ WORD_CHAR(text[i])
             window == Slice(text, i, Min2(Len(text), i + Len(word) + maxDistance))
             found == findMinDistanceInWindow(window, word)
             start == i + found.index
             leftOk == start = 0 \/ ~WORD_CHAR(text[start])
             rightOk == start + Len(word) >= Len(text) \/ ~WORD_CHAR(text[start + Len(word) + 1])
             next == findApproximateOccurrenceFrom(this, text, word, maxDistance,
                                                   wholeWordsOnly, i + 1)
         IN  IF skip THEN next
             ELSE IF found.distance = -1 \/ found.distance > maxDistance THEN next
             ELSE IF wholeWordsOnly /\ (~leftOk \/ ~rightOk) THEN next
             ELSE start

findApproximateOccurrence(this, text, word, maxDistance, wholeWordsOnly) ==
    findApproximateOccurrenceFrom(this, text, word, maxDistance, wholeWordsOnly, 0)

\* A faulty fuzzy stage: it does not stop at the first word found, and reports
\* an occurrence of every word that has one
RECURSIVE FuzzyStageAllWords(_, _, _)
FuzzyStageAllWords(this, textNormalized, todo) ==
    IF todo = <<>> THEN <<>>
    ELSE LET word == Head(todo).word
             index == findApproximateOccurrence(this, textNormalized, word,
                                                scaledMaxDistance(this, word),
                                                this.config.detection.wholeWordsOnly)
             rest == FuzzyStageAllWords(this, textNormalized, Tail(todo))
         IN  IF index # -1
             THEN <<[word |-> word, index |-> index, length |-> Len(word),
                     language |-> Head(todo).language]>> \o rest
             ELSE rest

\* The fuzzy stage: the first word of the first language with an approximate occurrence
RECURSIVE FuzzyStage(_, _, _)
FuzzyStage(this, textNormalized, todo) ==
    IF todo = <<>> THEN <<>>
    ELSE LET word == Head(todo).word
             index == findApproximateOccurrence(this, textNormalized, word,
                                                scaledMaxDistance(this, word),
                                                this.config.detection.wholeWordsOnly)
         IN  IF index # -1
             THEN <<[word |-> word, index |-> index, length |-> Len(word),
                     language |-> Head(todo).language]>>
             ELSE FuzzyStage(this, textNormalized, Tail(todo))

\* The value detect returns, with the instance as the call leaves it
DetectionResult(this, matches) ==
    [hasProfanity |-> Len(matches) > 0, matches |-> matches, diverges |-> FALSE, this |-> this]

\* detect after the phrase stage: the fuzzy fallback, and the return
DetectAfterPhrase(this, textNormalized, wordlists, phrased) ==
    DetectionResult(this,
        IF Len(phrased) = 0 /\ this.config.detection.levenshteinDistance > 0
        THEN FuzzyStage(this, textNormalized, WordsInOrder(wordlists))
        ELSE phrased)

\* A faulty orchestration: the phrase stage runs whatever the earlier stages
\* found, and its match is appended to theirs
DetectAfterScanPhraseAlways(this, textNormalized, wordlists, scanned) ==
    IF scanned.diverges
    THEN [hasProfanity |-> FALSE, matches |-> <<>>, diverges |-> TRUE, this |-> this]
    ELSE DetectAfterPhrase(this, textNormalized, wordlists,
             IF Len(this.phraseList) > 0
             THEN scanned.matches \o PhraseStage(this, textNormalized)
             ELSE scanned.matches)

\* detect after the inflection scan: a scan that never ends leaves detect without
\* a result; otherwise the phrase stage runs when nothing was pushed so far
DetectAfterScan(this, textNormalized, wordlists, scanned) ==
    IF scanned.diverges
    THEN [hasProfanity |-> FALSE, matches |-> <<>>, diverges |-> TRUE, this |-> this]
    ELSE DetectAfterPhrase(this, textNormalized, wordlists,
             IF Len(scanned.matches) = 0 /\ Len(this.phraseList) > 0
             THEN PhraseStage(this, textNormalized)
             ELSE scanned.matches)

\* detect after the exact stage: the inflection scan
DetectAfterExact(this, textNormalized, wordlists, exact) ==
    DetectAfterScan(this, textNormalized, wordlists,
        IF this.config.detection.enableInflections
        THEN InflectionStage(this, textNormalized, WordsInOrder(wordlists), exact)
        ELSE [matches |-> exact, diverges |-> FALSE])

\* detect over the word sets of the candidate languages: the exact stage
DetectIn(this, textNormalized, wordlists) ==
    DetectAfterExact(this, textNormalized, wordlists,
                     ExactStage(this, textNormalized, wordlists))

\* detect once the candidate codes are chosen
DetectSelected(textNormalized, selected) ==
    DetectIn(selected.this, textNormalized,
             collectWordlistsForCodes(selected.this, selected.codes))

\* detect on the normalized text: the candidate codes
DetectNormalized(this, textNormalized) ==
    DetectSelected(textNormalized,
        IF this.config.languages.autoDetect
        THEN selectAutoDetectLanguages(this, textNormalized)
        ELSE [codes |-> this.config.languages.enabled, this |-> this])

\* detect(text): the result, whether the call fails to return (diverges), and the
\* instance after it
detect(this, text) == DetectNormalized(this, normalizeWord(this, text))

----------------------------------------------------------------------------
(* index.ts: sanitize *)

\* pattern.repeat(n)
RECURSIVE Repeat(_, _)
Repeat(pattern, n) == IF n <= 0 THEN <<>> ELSE pattern \o Repeat(pattern, n - 1)

\* A faulty maskWord: the kept first character is put in front of a
\* full-length mask instead of taking the place of its first position
maskWordFirstPrepended(this, word) ==
    LET m == this.config.masking
    IN  IF ~m.preserveLength THEN Repeat(m.pattern, Max2(1, Len(word)))
        ELSE (IF m.preserveFirst /\ Len(word) > 0 THEN <<word[1]>> ELSE <<>>)
             \o Flatten([index \in 1..Len(word) |-> m.pattern])

maskWord(this, word) ==
    LET m == this.config.masking
    IN  IF ~m.preserveLength THEN Repeat(m.pattern, Max2(1, Len(word)))
        ELSE Flatten([index \in 1..Len(word) |->
                         IF (m.preserveFirst /\ index = 1) \/ (m.preserveLast /\ index = Len(word))
                         THEN <<word[index]>>
                         ELSE m.pattern])

\* output.splice(start, deleteCount, ...items)
Splice(output, start, deleteCount, items) ==
    LET from == Min2(start, Len(output))
        count == Min2(deleteCount, Len(output) - from)
    IN  SubSeq(output, 1, from) \o items \o SubSeq(output, from + count + 1, Len(output))

RECURSIVE ApplyMasks(_, _, _)
ApplyMasks(this, output, matches) ==
    IF matches = <<>> THEN output
    ELSE LET match == Head(matches)
             original == Slice(output, match.index, match.index + match.length)
         IN  ApplyMasks(this, Splice(output, match.index, match.length, maskWord(this, original)),
                        Tail(matches))

\* sanitize once detect has returned detection
SanitizeDetected(this, text, detection) ==
    [detection |-> detection,
     output |-> IF detection.diverges THEN <<>>
                ELSE IF ~detection.hasProfanity \/ ~this.config.masking.enabled THEN text
                ELSE ApplyMasks(this, text, detection.matches)]

sanitize(this, text) == SanitizeDetected(this, text, detect(this, text))

----------------------------------------------------------------------------
(* One detector instance and its caller *)

This ==
    [config |-> config, languageWordlists |-> languageWordlists,
     languageTries |-> languageTries, languageAutomata |-> languageAutomata,
     phraseTrie |-> phraseTrie, phraseList |-> phraseList]

Becomes(this) ==
    /\ config' = this.config
    /\ languageWordlists' = this.languageWordlists
    /\ languageTries' = this.languageTries
    /\ languageAutomata' = this.languageAutomata
    /\ phraseTrie' = this.phraseTrie
    /\ phraseList' = this.phraseList

NoCall == [op |-> "none"]

NoResult == [detection |-> [hasProfanity |-> FALSE, matches |-> <<>>, diverges |-> FALSE],
             output |-> <<>>]

StartsAs(this) ==
    /\ config = this.config
    /\ languageWordlists = this.languageWordlists
    /\ languageTries = this.languageTries
    /\ languageAutomata = this.languageAutomata
    /\ phraseTrie = this.phraseTrie
    /\ phraseList = this.phraseList
    /\ pc = "idle"
    /\ call = NoCall
    /\ ret = NoResult

\* A mutator call runs to completion before anything else touches the
\* instance; the caller holds no result while it makes one.
AddWord(word, language) ==
    /\ pc = "idle"
    /\ Becomes(addWord(This, word, language))
    /\ UNCHANGED <<pc, call, ret>>

RemoveWord(word, language) ==
    /\ pc = "idle"
    /\ Becomes(removeWord(This, word, language))
    /\ UNCHANGED <<pc, call, ret>>

SetLanguages(enabled, fallback) ==
    /\ pc = "idle"
    /\ Becomes(setLanguages(This, enabled, fallback))
    /\ UNCHANGED <<pc, call, ret>>

LoadLanguages(codes) ==
    /\ pc = "idle"
    /\ Becomes(loadLanguages(This, codes))
    /\ UNCHANGED <<pc, call, ret>>

SetAlgorithm(algorithm) ==
    /\ pc = "idle"
    /\ Becomes(setAlgorithm(This, algorithm))
    /\ UNCHANGED <<pc, call, ret>>

\* phraseList holds array references, so every addPhrase call with tokens grows it
MaxPhrases == 2

AddPhrase(phrase) ==
    /\ pc = "idle"
    /\ Len(phraseList) < MaxPhrases
    /\ Becomes(addPhrase(This, phrase))
    /\ UNCHANGED <<pc, call, ret>>

RemovePhrase(phrase) ==
    /\ pc = "idle"
    /\ Becomes(removePhrase(This, phrase))
    /\ UNCHANGED <<pc, call, ret>>

\* The caller receives r from sanitize(text)
Returns(text, r) ==
    /\ Becomes(r.detection.this)
    /\ pc' = IF r.detection.diverges THEN "hung" ELSE "returned"
    /\ call' = [op |-> "sanitize", text |-> text]
    /\ ret' = [detection |-> [hasProfanity |-> r.detection.hasProfanity,
                              matches |-> r.detection.matches,
                              diverges |-> r.detection.diverges],
               output |-> r.output]

\* sanitize(text), which calls detect(text): the caller then holds both results
Sanitize(text) ==
    /\ pc = "idle"
    /\ Returns(text, sanitize(This, text))

\* The caller drops the result
Return ==
    /\ pc = "returned"
    /\ pc' = "idle"
    /\ call' = NoCall
    /\ ret' = NoResult
    /\ UNCHANGED <<config, languageWordlists, languageTries, languageAutomata,
                   phraseTrie, phraseList>>

----------------------------------------------------------------------------
(* Word detection and masking: one language, words added and removed        *)

MaxTextLen == 3

TextChars == {"a", "s", "*", "Idot"}

Texts == SeqsUpTo(TextChars, MaxTextLen)

\* The words the caller adds: one that extends the pack word, and the empty word
Words == {<<"a", "s", "s">>, <<>>}

\* What every constructor call of the model overrides: one suffix, one stop word,
\* one separator
Scaled == [inflectionSuffixes |-> << <<"s">> >>, phraseStopwords |-> << <<"a">> >>,
           ignoreSeparators |-> <<"*">>]

DetectionOverrides ==
    {Spread(Scaled, d) :
        d \in [wholeWordsOnly : BOOLEAN, enableInflections : BOOLEAN,
               algorithm : {"trie", "aho"}, levenshteinDistance : {0, 1}]}

UserConfigs ==
    {[detection |-> d] : d \in DetectionOverrides}
    \cup {[detection |-> Scaled, masking |-> m] :
            m \in {[preserveLength |-> FALSE], [preserveFirst |-> FALSE, preserveLast |-> TRUE]}}
    \cup {[detection |-> Spread(Scaled, [allowlist |-> << <<"a", "s">> >>])]}

Init == \E userConfig \in UserConfigs : StartsAs(constructor(userConfig))

Next ==
    \/ \E word \in Words : AddWord(word, "undefined")
    \/ \E word \in Words \cup {EN_WORDS[1]} : RemoveWord(word, "undefined")
    \/ \E text \in Texts : Sanitize(text)
    \/ Return

Spec == Init /\ [][Next]_vars

----------------------------------------------------------------------------
(* Properties of word detection and masking, checked under Spec            *)

\* The text detect scans for the call the caller holds the result of
NormalizedText == normalizeWord(This, call.text)

\* detect(call.text) once addWord(word) has run on the instance as it is now
AfterAddWord(word) == detect(addWord(This, word, "undefined"), call.text)

SameSpan(m, n) == m.index = n.index /\ m.length = n.length

Overlap(m, n) == m.index < n.index + n.length /\ n.index < m.index + m.length

\* C2: sanitize is idempotent: sanitizing the text a sanitize call returned
\* returns that text unchanged.
C2_SanitizeIdempotent ==
    pc = "returned" =>
        LET again == sanitize(This, ret.output)
        IN  again.detection.diverges \/ again.output = ret.output

\* C3: with masking.preserveLength the text sanitize returns is as long as the
\* text it was given, whatever spans detect reported (the mask pattern being
\* one character).
C3_LengthPreserved ==
    (pc = "returned" /\ config.masking.preserveLength)
        => Len(ret.output) = Len(call.text)

\* A sanitize call that masked two overlapping spans under preserveLength
C3_OverlappingMasked ==
    /\ pc = "returned"
    /\ config.masking.preserveLength
    /\ config.masking.enabled
    /\ ret.output # call.text
    /\ \E i, j \in 1..Len(ret.detection.matches) :
          /\ i < j
          /\ Overlap(ret.detection.matches[i], ret.detection.matches[j])

C6_BoundarySound ==
    (pc = "returned" /\ config.detection.wholeWordsOnly)
        => \A k \in 1..Len(ret.detection.matches) :
               LET m == ret.detection.matches[k]
                   t == NormalizedText
               IN  /\ ~(m.index > 0 /\ m.index <= Len(t) /\ WORD_CHAR(t[m.index]))
                   /\ ~(m.index + m.length < Len(t) /\ WORD_CHAR(t[m.index + m.length + 1]))

\* C10: no reported span has an allowlisted term as its word or as the
\* normalized text it covers, and a text equal to an allowlisted term comes
\* back from sanitize unmasked.
C10_AllowlistHonoured ==
    pc = "returned" =>
        /\ \A k \in 1..Len(ret.detection.matches) :
               LET m == ret.detection.matches[k]
               IN  /\ ~Contains(config.detection.allowlist, m.word)
                   /\ ~Contains(config.detection.allowlist,
                                Slice(NormalizedText, m.index, m.index + m.length))
        /\ Contains(config.detection.allowlist, NormalizedText) => ret.output = call.text

----------------------------------------------------------------------------
(* The normalizer on its own: every text over NormChars, every option set   *)

MaxNormLen == 2

NormChars == {"a", "A", "1", "zwsp", "eacute", "filig", "Idot", "acute"}

NormOptions ==
    [caseSensitive : BOOLEAN, confusableMapping : BOOLEAN, stripDiacritics : BOOLEAN,
     useNFKC : BOOLEAN, lengthPreserving : BOOLEAN, stripInvisible : BOOLEAN]

\* No detector instance takes part
NoInstance ==
    /\ config = "none"
    /\ languageWordlists = <<>>
    /\ languageTries = <<>>
    /\ languageAutomata = <<>>
    /\ phraseTrie = {}
    /\ phraseList = <<>>

NormInit ==
    /\ NoInstance
    /\ pc = "idle"
    /\ call \in [op : {"normalizeForDetection"}, text : SeqsUpTo(NormChars, MaxNormLen),
                  options : NormOptions]
    /\ ret = <<>>

NormCall ==
    /\ pc = "idle"
    /\ pc' = "normalized"
    /\ ret' = normalizeForDetection(call.text, call.options)
    /\ UNCHANGED <<config, languageWordlists, languageTries, languageAutomata,
                   phraseTrie, phraseList, call>>

NormNext == NormCall

NormSpec == NormInit /\ [][NormNext]_vars

\* C1: in length-preserving mode the normalized text has as many positions as
\* the input, and position i of it is what normalizing input position i alone
\* gives, for every setting of the other options.
C1_LengthPreserving ==
    (pc = "normalized" /\ call.options.lengthPreserving)
        => /\ Len(ret) = Len(call.text)
           /\ \A i \in 1..Len(call.text) :
                  <<ret[i]>> = normalizeForDetection(<<call.text[i]>>, call.options)

----------------------------------------------------------------------------
(* The two exact matchers on their own, built from the same words           *)

MaxMatchWordLen == 2

MaxMatchWords == 2

MaxMatchTextLen == 4

MatchWordPool == SeqsUpTo({"a", "b"}, MaxMatchWordLen) \ {<<>>}

MatchWordLists ==
    {ws \in SeqsUpTo(MatchWordPool, MaxMatchWords) :
        \A i, j \in 1..Len(ws) : i # j => ws[i] # ws[j]}

MatchInit ==
    /\ NoInstance
    /\ pc = "idle"
    /\ call \in [op : {"findAllMatches"}, words : MatchWordLists,
                  text : SeqsUpTo({"a", "b", "*"}, MaxMatchTextLen),
                  wholeWordsOnly : BOOLEAN, separators : {{}, {"*"}}]
    /\ ret = [trie |-> <<>>, aho |-> <<>>]

MatchCall ==
    /\ pc = "idle"
    /\ pc' = "matched"
    /\ ret' = [trie |-> TrieFindAllMatches(TrieInsertAll(NewTrie, call.words), call.text,
                                           call.wholeWordsOnly, call.separators),
               aho |-> AhoFindAllMatches(AhoBuild(AhoInsertAll(NewAhoCorasick, call.words)),
                                         call.text, call.wholeWordsOnly, call.separators)]
    /\ UNCHANGED <<config, languageWordlists, languageTries, languageAutomata,
                   phraseTrie, phraseList, call>>

MatchNext == MatchCall

MatchSpec == MatchInit /\ [][MatchNext]_vars

\* The spans of a result that no other span of it with the same start exceeds
LongestPerStart(spans) ==
    {sp \in spans : \A other \in spans : other.index = sp.index => other.length <= sp.length}

\* C5 as stated: built from the same words, the Trie and the Aho-Corasick
\* matcher return the same set of (start, length) spans.
C5_SameSpans ==
    pc = "matched" => Range(ret.trie) = Range(ret.aho)

\* C5, amended: the Trie returns exactly those spans of the Aho-Corasick
\* result that are the longest for their start position; the Aho-Corasick
\* matcher also returns the shorter words that match at the same start.
C5_TrieIsLongestOfAho ==
    pc = "matched" => Range(ret.trie) = LongestPerStart(Range(ret.aho))

\* A text on which the automaton reports a span the trie does not
C5_AhoReportsMore ==
    /\ pc = "matched"
    /\ ret.trie # <<>>
    /\ Range(ret.aho) \ Range(ret.trie) # {}

----------------------------------------------------------------------------
(* The phrase store: phrases added and removed, one language of words       *)

PhraseTextChars == {"a", "s", "*"}

\* Two longer texts one edit away from the custom word: the second also holds
\* the token "s" behind a comma, which no matcher skips; and a text of a stop
\* word and the token "s" with a comma between them
LongTexts == {<<"s", "s", "s", "s", "a">>, <<"s", "s", "s", "s", "a", ",", "s">>,
              <<"a", ",", "s">>}

PhraseTexts == SeqsUpTo(PhraseTextChars, MaxTextLen) \cup LongTexts

\* A phrase of two tokens and a phrase that is its first token
Phrases == {<<"s", "*", "s">>, <<"s">>}

\* Every configuration has a custom word long enough for one edit
PhraseConfigs ==
    {[detection |-> Spread(Scaled, Spread(d, [customWords |-> << <<"s", "s", "s", "s", "s">> >>]))] :
        d \in [enableInflections : BOOLEAN, levenshteinDistance : {0, 1}]}

PhraseInit == \E userConfig \in PhraseConfigs : StartsAs(constructor(userConfig))

PhraseNext ==
    \/ \E phrase \in Phrases : AddPhrase(phrase)
    \/ \E phrase \in Phrases : RemovePhrase(phrase)
    \/ \E text \in PhraseTexts : Sanitize(text)
    \/ Return

PhraseSpec == PhraseInit /\ [][PhraseNext]_vars

\* The instance with a phrase tree built from nothing but the phrase store
WithFreshPhraseTrie ==
    [This EXCEPT !.phraseTrie = PhraseInsertAll(NewPhraseTrie, phraseList)]

\* C9: the phrase tree detect consults holds exactly the token sequences of
\* the phrase store, so detect reports what it would report with a tree built
\* from the store alone: a removed phrase is not matched any more.
C9_PhraseTreeIsStore ==
    /\ phraseTrie = WithFreshPhraseTrie.phraseTrie
    /\ pc = "returned" =>
           ret.detection.matches = detect(WithFreshPhraseTrie, call.text).matches

----------------------------------------------------------------------------
(* The language registry: two languages, words added to either, the enabled *)
(* list and the algorithm changed                                           *)

RegistryTexts == SeqsUpTo(PhraseTextChars, MaxTextLen)

RegistryWords == {<<"s", "a">>}

RegistryConfigs ==
    {[detection |-> Spread(Scaled, Spread(d, [levenshteinDistance |-> 0]))] :
        d \in [enableInflections : BOOLEAN, algorithm : {"trie", "aho"}]}

EnabledLists == {<<"en">>, <<"es">>, <<"en", "es">>}

RegistryInit == \E userConfig \in RegistryConfigs : StartsAs(constructor(userConfig))

RegistryNext ==
    \/ \E word \in RegistryWords, language \in {"undefined", "es"} : AddWord(word, language)
    \/ \E word \in RegistryWords, language \in {"undefined", "es"} : RemoveWord(word, language)
    \/ \E enabled \in EnabledLists : SetLanguages(enabled, "undefined")
    \/ \E codes \in EnabledLists : LoadLanguages(codes)
    \/ \E algorithm \in {"trie", "aho"} : SetAlgorithm(algorithm)
    \/ \E text \in RegistryTexts : Sanitize(text)
    \/ Return

RegistrySpec == RegistryInit /\ [][RegistryNext]_vars

\* The matcher rebuildMatcherForLanguage would store for a language now
ExpectedMatcher(words) ==
    IF config.detection.algorithm = "aho"
    THEN AhoBuild(AhoInsertAll(NewAhoCorasick, MatcherWords(This, words)))
    ELSE TrieInsertAll(NewTrie, MatcherWords(This, words))

\* The matchers of the kind the current algorithm reads
CurrentMatchers ==
    IF config.detection.algorithm = "aho" THEN languageAutomata ELSE languageTries

\* C8: every language with a word set has a matcher of the kind the current
\* algorithm selects, built from exactly its current words and their
\* variants, so that detect finds one for every candidate language.
C8_MatcherConsistent ==
    \A k \in 1..Len(languageWordlists) :
        LET code == languageWordlists[k].key
        IN  /\ code \in DOMAIN CurrentMatchers
            /\ CurrentMatchers[code] = ExpectedMatcher(languageWordlists[k].value)

\* The texts made of word with one separator put between two of its letters
Separated(word, separator) ==
    {SubSeq(word, 1, p) \o <<separator>> \o SubSeq(word, p + 1, Len(word)) :
        p \in {q \in 1..(Len(word) - 1) : WORD_CHAR(word[q]) /\ WORD_CHAR(word[q + 1])}}

StartsAtZero(matches) == \E k \in 1..Len(matches) : matches[k].index = 0

\* C7: for a word of an enabled language that detect reports at position 0
\* when the text is the word, detect also reports a match at position 0 when
\* the text is the word with one ignored separator between two of its letters.
C7_SeparatorTransparent ==
    pc = "returned" =>
        \A k \in 1..Len(languageWordlists) :
            \A n \in 1..Len(languageWordlists[k].value) :
                LET word == languageWordlists[k].value[n]
                IN  (/\ Contains(config.languages.enabled, languageWordlists[k].key)
                     /\ \E s \in Range(config.detection.ignoreSeparators) :
                            call.text \in Separated(word, s)
                     /\ StartsAtZero(detect(This, word).matches))
                        => StartsAtZero(ret.detection.matches)

----------------------------------------------------------------------------
(* The language codes: detectors constructed with any enabled list, with    *)
(* autoDetect on or off and with a custom word; languages set and loaded,   *)
(* words added to the fallback, to a language with a pack and to one without *)

\* The codes a caller names: en, a code with a pack, and a code without one
LanguageCodeLists == {<<>>, <<"en">>, <<"es">>, <<"xx">>, <<"es", "en">>}

\* A word that no pack holds
LanguageWords == {<<"s", "s">>}

\* The pack words and the word the caller adds
LanguageTexts == {EN_WORDS[1], languageWordMap["es"][1], <<"s", "s">>}

LanguageConfigs ==
    {[detection |-> Spread(Scaled, [enableInflections |-> FALSE, levenshteinDistance |-> 0,
                                    customWords |-> custom]),
      languages |-> [enabled |-> enabled, autoDetect |-> auto]] :
        custom \in {<<>>, << <<"s", "s">> >>},
        enabled \in {<<>>, <<"en">>, <<"es">>},
        auto \in BOOLEAN}

LanguageInit == \E userConfig \in LanguageConfigs : StartsAs(constructor(userConfig))

LanguageNext ==
    \/ \E word \in LanguageWords, language \in {"undefined", "es", "xx"} : AddWord(word, language)
    \/ \E enabled \in LanguageCodeLists : SetLanguages(enabled, "undefined")
    \/ \E codes \in LanguageCodeLists : LoadLanguages(codes)
    \/ \E text \in LanguageTexts : Sanitize(text)
    \/ Return

LanguageSpec == LanguageInit /\ [][LanguageNext]_vars

\* What a caller sees of a detect call's outcome
Outcome(r) == [hasProfanity |-> r.hasProfanity, matches |-> r.matches, diverges |-> r.diverges]

\* C11: detect leaves the instance as it was (configuration, word sets,
\* matchers, phrase store), for every text and with autoDetect on as well, and
\* a second call with the same text returns what the first returned.
C11_DetectIsPure ==
    \A text \in LanguageTexts :
        /\ detect(This, text).this = This
        /\ Outcome(detect(detect(This, text).this, text)) = Outcome(detect(This, text))

\* The words of the pack of a code: EN_WORDS for en, the pack table otherwise
HasPack(code) == code = "en" \/ code \in DOMAIN languageWordMap

PackOf(code) == IF code = "en" THEN EN_WORDS ELSE languageWordMap[code]

\* C12: whatever ran on the instance before, after loadLanguages(codes) every
\* code of codes that has a pack is enabled, and with autoDetect off detect
\* reports a text equal to any word of that pack.
C12_LoadedPackDetected ==
    \A codes \in LanguageCodeLists :
        \A k \in 1..Len(codes) :
            HasPack(codes[k]) =>
                /\ Contains(loadLanguages(This, codes).config.languages.enabled, codes[k])
                /\ ~config.languages.autoDetect =>
                       \A n \in 1..Len(PackOf(codes[k])) :
                           detect(loadLanguages(This, codes), PackOf(codes[k])[n]).hasProfanity

\* What C13 asks of the instance a setLanguages or loadLanguages call leaves,
\* for a code of the call that has no pack
EmptyEntryThenAddWord(after, code) ==
    /\ MapHas(after.languageWordlists, code)
    /\ ~MapHas(languageWordlists, code) => MapGet(after.languageWordlists, code) = <<>>
    /\ ~config.languages.autoDetect =>
           \A word \in LanguageWords : detect(addWord(after, word, code), word).hasProfanity

\* C13: setLanguages(codes) and loadLanguages(codes) give a code without a
\* pack a language entry (an empty one when the code is new), and with
\* autoDetect off a word added afterwards by addWord(w, code) is reported by
\* detect on the text w.
C13_UnknownCodeUsable ==
    \A codes \in LanguageCodeLists :
        \A k \in 1..Len(codes) :
            ~HasPack(codes[k]) =>
                /\ EmptyEntryThenAddWord(setLanguages(This, codes, "undefined"), codes[k])
                /\ EmptyEntryThenAddWord(loadLanguages(This, codes), codes[k])

\* What C14 asks of an instance whose enabled list was just set to codes
PacksPreloaded(after, codes) ==
    /\ after.config.languages.enabled = codes
    /\ \A k \in 1..Len(codes) :
           HasPack(codes[k]) =>
               \A n \in 1..Len(PackOf(codes[k])) :
                   LET word == PackOf(codes[k])[n]
                   IN  /\ MapHas(after.languageWordlists, codes[k])
                       /\ Contains(MapGet(after.languageWordlists, codes[k]),
                                   normalizeWord(after, word))
                       /\ ~after.config.languages.autoDetect => detect(after, word).hasProfanity

\* C14: after setLanguages(codes), and after construction with
\* languages.enabled = codes, the enabled list is codes and every code of it
\* that has a pack holds its pack words, which detect then reports.
C14_EnabledPacksLoaded ==
    /\ \A codes \in LanguageCodeLists :
           PacksPreloaded(setLanguages(This, codes, "undefined"), codes)
    /\ \A userConfig \in LanguageConfigs :
           PacksPreloaded(constructor(userConfig), userConfig.languages.enabled)

\* C15: with autoDetect off, in every state a word added by addWord(w) without
\* a language is reported by detect on the text w, and so is every custom
\* word of the configuration on a freshly constructed instance.
C15_AddedWordDetected ==
    /\ ~config.languages.autoDetect =>
           \A word \in LanguageWords :
               detect(addWord(This, word, "undefined"), word).hasProfanity
    /\ \A userConfig \in LanguageConfigs :
           ~userConfig.languages.autoDetect =>
               \A k \in 1..Len(userConfig.detection.customWords) :
                   detect(constructor(userConfig),
                          userConfig.detection.customWords[k]).hasProfanity

----------------------------------------------------------------------------
(* Properties of the registry's word sets, checked under RegistrySpec       *)

\* The words addWord and removeWord are called with
UndoWords == {<<"s", "a">>, <<"s", "s">>}

\* The language a call without a language argument targets
TargetOf(this, language) ==
    IF language = "undefined" THEN this.config.languages.fallback ELSE language

\* The word set and the matchers of a language; a language without an entry
\* has no words, and a missing matcher matches nothing
LanguageState(this, lang) ==
    [words |-> IF MapHas(this.languageWordlists, lang)
               THEN MapGet(this.languageWordlists, lang) ELSE <<>>,
     trie |-> IF lang \in DOMAIN this.languageTries
              THEN this.languageTries[lang] ELSE NewTrie,
     automaton |-> IF lang \in DOMAIN this.languageAutomata
                   THEN this.languageAutomata[lang] ELSE AhoBuild(NewAhoCorasick)]

\* addWord(word, language) followed by removeWord(word, language)
AddThenRemove(word, language) == removeWord(addWord(This, word, language), word, language)

\* C16: for a word that is not in the target language's word set,
\* addWord(w) followed by removeWord(w) leaves that language's word set and
\* matcher as they were, and detect returns for every text what it returned
\* before.
C16_RemoveUndoesAdd ==
    \A word \in UndoWords, language \in {"undefined", "es"} :
        ~Contains(LanguageState(This, TargetOf(This, language)).words, normalizeWord(This, word))
            => /\ LanguageState(AddThenRemove(word, language), TargetOf(This, language))
                      = LanguageState(This, TargetOf(This, language))
               /\ \A text \in RegistryTexts :
                      Outcome(detect(AddThenRemove(word, language), text))
                          = Outcome(detect(This, text))

----------------------------------------------------------------------------
(* Further properties of word detection, checked under Spec                 *)

\* C17: no word set holds the empty word, no matcher has the empty word as a
\* pattern, and no span detect reports has length 0.
C17_EmptyWordDropped ==
    /\ \A k \in 1..Len(languageWordlists) : ~Contains(languageWordlists[k].value, <<>>)
    /\ \A code \in DOMAIN languageTries : <<>> \notin languageTries[code].terminal
    /\ \A code \in DOMAIN languageAutomata :
           \A i \in 1..Len(languageAutomata[code].nodes) :
               ~Contains(languageAutomata[code].nodes[i].terminalLengths, 0)
    /\ pc = "returned" =>
           \A k \in 1..Len(ret.detection.matches) : ret.detection.matches[k].length > 0

----------------------------------------------------------------------------
(* Construction from any configuration, valid or not: the constructor has   *)
(* no failing path, so every configuration yields an instance               *)

ConfigConfigs ==
    {[detection |-> Spread(Scaled, d)] :
        d \in [levenshteinDistance : {-1, 0, 1}, phraseMaxSkips : {-1, 0, 2},
               enableInflections : BOOLEAN]}

ConfigInit == \E userConfig \in ConfigConfigs : StartsAs(constructor(userConfig))

ConfigNext ==
    \/ \E phrase \in Phrases : AddPhrase(phrase)
    \/ \E text \in PhraseTexts : Sanitize(text)
    \/ Return

ConfigSpec == ConfigInit /\ [][ConfigNext]_vars

\* C18: a configuration with a negative levenshteinDistance or a negative
\* phraseMaxSkips is rejected, so no instance ever holds one.
C18_InvalidConfigRejected ==
    /\ config.detection.levenshteinDistance >= 0
    /\ config.detection.phraseMaxSkips >= 0

----------------------------------------------------------------------------
(* The order of the stages, checked under PhraseSpec (autoDetect off)       *)

\* What each stage of detect finds on the text of the call when run on its own
StageLists == collectWordlistsForCodes(This, config.languages.enabled)

StageExact == ExactStage(This, NormalizedText, StageLists)

StageScanned ==
    IF config.detection.enableInflections
    THEN InflectionStage(This, NormalizedText, WordsInOrder(StageLists), StageExact).matches
    ELSE StageExact

StagePhrase == IF Len(phraseList) > 0 THEN PhraseStage(This, NormalizedText) ELSE <<>>

StageFuzzy ==
    IF config.detection.levenshteinDistance > 0
    THEN FuzzyStage(This, NormalizedText, WordsInOrder(StageLists))
    ELSE <<>>

\* C19: the matches of a result start with the exact matcher's spans, followed
\* by the inflection scan's; when those two stages found anything the result
\* is exactly their spans (no phrase or fuzzy match is added); a phrase match
\* is returned only when they found nothing, and then alone; a fuzzy match
\* only when the phrase stage found nothing either.
C19_StageOrder ==
    pc = "returned" =>
        /\ SubSeq(ret.detection.matches, 1, Len(StageExact)) = StageExact
        /\ StageScanned # <<>> => ret.detection.matches = StageScanned
        /\ (StageScanned = <<>> /\ StagePhrase # <<>>) => ret.detection.matches = StagePhrase
        /\ (StageScanned = <<>> /\ StagePhrase = <<>>) => ret.detection.matches = StageFuzzy

\* A result of the exact stage alone on a text that also holds a stored phrase
C19_ExactShadowsPhrase ==
    /\ pc = "returned"
    /\ StageExact # <<>>
    /\ StagePhrase # <<>>
    /\ ret.detection.matches = StageScanned

\* A phrase match returned alone on a text where the fuzzy stage, had it run,
\* would have matched as well
C19_PhraseShadowsFuzzy ==
    /\ pc = "returned"
    /\ StageScanned = <<>>
    /\ StagePhrase # <<>>
    /\ StageFuzzy # <<>>
    /\ ret.detection.matches = StagePhrase

----------------------------------------------------------------------------
(* The language of the reported spans, checked under RegistrySpec           *)

\* C20: with autoDetect off every span of a result carries the same language
\* code, the first code in languages.enabled order for which a word set of
\* the candidates yields a match; no later language contributes a span.
C20_FirstLanguageOnly ==
    (pc = "returned" /\ ~config.languages.autoDetect) =>
        \A k \in 1..Len(ret.detection.matches) :
            ret.detection.matches[k].language = ret.detection.matches[1].language

----------------------------------------------------------------------------
(* The masking rule, checked under Spec                                     *)

\* No two spans of the result share a position, and every span has a position
Disjoint(matches) ==
    /\ \A k \in 1..Len(matches) : matches[k].length >= 1
    /\ \A i, j \in 1..Len(matches) : i # j => ~Overlap(matches[i], matches[j])

\* The spans of the result that hold position p (0-based) of the text
SpansAt(matches, p) ==
    {k \in 1..Len(matches) : matches[k].index <= p /\ p < matches[k].index + matches[k].length}

\* What the masking rule puts at position p of span m of text
MaskedAt(text, m, p) ==
    IF ~config.masking.preserveLength THEN config.masking.pattern[1]
    ELSE IF (config.masking.preserveFirst /\ p = m.index)
            \/ (config.masking.preserveLast /\ p = m.index + m.length - 1)
         THEN text[p + 1]
         ELSE config.masking.pattern[1]

\* C21: when the reported spans do not overlap, sanitize returns the text with
\* every position outside the spans unchanged and every position of a span
\* masked by the rule (the pattern character, except the span's first
\* position under preserveFirst and its last under preserveLast, when
\* preserveLength is set); without a match, or with masking disabled, it
\* returns the text unchanged.
C21_MaskingRule ==
    pc = "returned" =>
        IF ~ret.detection.hasProfanity \/ ~config.masking.enabled
        THEN ret.output = call.text
        ELSE Disjoint(ret.detection.matches) =>
                 /\ Len(ret.output) = Len(call.text)
                 /\ \A k \in 1..Len(ret.detection.matches) :
                        ret.detection.matches[k].index + ret.detection.matches[k].length
                            <= Len(call.text)
                 /\ \A p \in 0..(Len(call.text) - 1) :
                        IF SpansAt(ret.detection.matches, p) = {}
                        THEN ret.output[p + 1] = call.text[p + 1]
                        ELSE \A k \in SpansAt(ret.detection.matches, p) :
                                 ret.output[p + 1]
                                     = MaskedAt(call.text, ret.detection.matches[k], p)

----------------------------------------------------------------------------
(* Candidate languages: autoDetect on or off, words added to the languages  *)
(* of two scripts, the English pack word removed, texts of either script    *)

AutoWords == {<<"hangul">>, <<"cyrillic">>}

AutoTexts == {<<"hangul">>, <<"cyrillic">>, <<"cyrillic", "hangul">>, EN_WORDS[1]}

AutoConfigs ==
    {[detection |-> Spread(Scaled, [enableInflections |-> FALSE, levenshteinDistance |-> 0]),
      languages |-> [enabled |-> enabled, autoDetect |-> auto]] :
        enabled \in {<<>>, <<"en">>}, auto \in BOOLEAN}

AutoInit == \E userConfig \in AutoConfigs : StartsAs(constructor(userConfig))

AutoNext ==
    \/ \E word \in AutoWords, language \in {"ko", "ru"} : AddWord(word, language)
    \/ RemoveWord(EN_WORDS[1], "undefined")
    \/ \E text \in AutoTexts : Sanitize(text)
    \/ Return

AutoSpec == AutoInit /\ [][AutoNext]_vars

\* candidateCodes of detect(text)
candidateCodes(this, text) ==
    IF this.config.languages.autoDetect
    THEN selectAutoDetectLanguages(this, normalizeWord(this, text)).codes
    ELSE this.config.languages.enabled

\* The codes whose word set is not empty
LoadedCodes(this) ==
    {this.languageWordlists[k].key : k \in {n \in 1..Len(this.languageWordlists) :
                                               Len(this.languageWordlists[n].value) > 0}}

\* The script codes of the text that are loaded, in the order of the heuristic
LikelyLoaded(this, text) ==
    SelectSeq(inferLikelyLanguageCodes(text), LAMBDA c : c \in LoadedCodes(this))

\* C22: with autoDetect on, the candidate codes of detect(text) are the script
\* codes of the text that are loaded with a non-empty word set, in the
\* heuristic's order; all loaded codes when there are none; all known pack
\* codes when nothing is loaded.  With autoDetect off they are
\* languages.enabled.
C22_CandidateLanguages ==
    \A text \in AutoTexts :
        IF ~config.languages.autoDetect
        THEN candidateCodes(This, text) = config.languages.enabled
        ELSE IF LikelyLoaded(This, text) # <<>>
        THEN candidateCodes(This, text) = LikelyLoaded(This, text)
        ELSE IF LoadedCodes(This) # {}
        THEN Range(candidateCodes(This, text)) = LoadedCodes(This)
        ELSE candidateCodes(This, text) = allLanguageCodes

\* The same for the texts that hold no Hangul syllable
C22_CandidatesOutsideHangul ==
    \A text \in {t \in AutoTexts : ~Contains(t, "hangul")} :
        IF ~config.languages.autoDetect
        THEN candidateCodes(This, text) = config.languages.enabled
        ELSE IF LikelyLoaded(This, text) # <<>>
        THEN candidateCodes(This, text) = LikelyLoaded(This, text)
        ELSE IF LoadedCodes(This) # {}
        THEN Range(candidateCodes(This, text)) = LoadedCodes(This)
        ELSE candidateCodes(This, text) = allLanguageCodes

----------------------------------------------------------------------------
(* The approximate scanner, checked under PhraseSpec                        *)

\* The part of the normalized text a span covers
SpanText(m) == Slice(NormalizedText, m.index, m.index + m.length)

\* C23: every match of the fuzzy stage for a word w is a span of length |w| of
\* the normalized text whose characters are within Levenshtein distance
\* min(levenshteinDistance, |w| div 5) of w; a word shorter than 5 characters
\* is matched only where it occurs exactly.
C23_FuzzyWithinDistance ==
    pc = "returned" =>
        \A k \in 1..Len(StageFuzzy) :
            /\ StageFuzzy[k].length = Len(StageFuzzy[k].word)
            /\ StageFuzzy[k].index >= 0
            /\ StageFuzzy[k].index + StageFuzzy[k].length <= Len(NormalizedText)
            /\ levenshtein(SpanText(StageFuzzy[k]), StageFuzzy[k].word)
                   <= Min2(config.detection.levenshteinDistance, Len(StageFuzzy[k].word) \div 5)
            /\ Len(StageFuzzy[k].word) < 5 => SpanText(StageFuzzy[k]) = StageFuzzy[k].word

\* A result that is one fuzzy match of a five-letter word, one edit away
C23_OneEditReported ==
    /\ pc = "returned"
    /\ StageFuzzy # <<>>
    /\ ret.detection.matches = StageFuzzy
    /\ Len(StageFuzzy[1].word) = 5
    /\ levenshtein(SpanText(StageFuzzy[1]), StageFuzzy[1].word) = 1

----------------------------------------------------------------------------
(* The fuzzy fallback: two five-letter words added to either of two         *)
(* languages, texts one edit away from them                                 *)

FuzzyWords == {<<"s", "s", "s", "s", "s">>, <<"s", "s", "s", "s", "a">>}

\* One edit from both words; one of the words; both words one edit away at offset 1
FuzzyTexts == {<<"s", "s", "s", "s", ",">>, <<"s", "s", "s", "s", "a">>,
               <<",", "s", "s", "s", "s", ",">>}

FuzzyConfigs ==
    {[detection |-> Spread(Scaled, Spread(d, [enableInflections |-> FALSE])),
      languages |-> [enabled |-> enabled]] :
        d \in [wholeWordsOnly : BOOLEAN, levenshteinDistance : {0, 1}],
        enabled \in {<<"en">>, <<"es", "en">>}}

FuzzyInit == \E userConfig \in FuzzyConfigs : StartsAs(constructor(userConfig))

FuzzyNext ==
    \/ \E word \in FuzzyWords, language \in {"undefined", "es"} : AddWord(word, language)
    \/ \E text \in FuzzyTexts : Sanitize(text)
    \/ Return

FuzzySpec == FuzzyInit /\ [][FuzzyNext]_vars

\* One pass of the loop of findApproximateOccurrence: the position window i
\* yields, or -1 when the pass ends in continue
AcceptedAt(this, text, word, i) ==
    LET maxDistance == scaledMaxDistance(this, word)
        found == findMinDistanceInWindow(
                     Slice(text, i, Min2(Len(text), i + Len(word) + maxDistance)), word)
        start == i + found.index
    IN  IF this.config.detection.tokenBoundedFuzzy /\ i > 0 /\ WORD_CHAR(text[i]) THEN -1
        ELSE IF found.distance = -1 \/ found.distance > maxDistance THEN -1
        ELSE IF this.config.detection.wholeWordsOnly
                /\ (\/ start # 0 /\ WORD_CHAR(text[start])
                    \/ start + Len(word) < Len(text) /\ WORD_CHAR(text[start + Len(word) + 1]))
        THEN -1
        ELSE start

\* The windows of the normalized text of the call that accept the word
AcceptingWindows(word) ==
    {i \in 0..(Len(NormalizedText) - Len(word)) : AcceptedAt(This, NormalizedText, word, i) # -1}

\* The places in the walk of the candidate words whose word has an accepting window
AcceptedWords ==
    {k \in 1..Len(WordsInOrder(StageLists)) :
        AcceptingWindows(WordsInOrder(StageLists)[k].word) # {}}

Least(S) == CHOOSE n \in S : \A m \in S : n <= m

\* The match of the k-th word of the walk at its first accepting window
FirstAccepted(k) ==
    [word |-> WordsInOrder(StageLists)[k].word,
     index |-> AcceptedAt(This, NormalizedText, WordsInOrder(StageLists)[k].word,
                          Least(AcceptingWindows(WordsInOrder(StageLists)[k].word))),
     length |-> Len(WordsInOrder(StageLists)[k].word),
     language |-> WordsInOrder(StageLists)[k].language]

\* C24: the fuzzy stage contributes at most one match: when the earlier stages
\* found nothing and levenshteinDistance > 0, the result is empty if no
\* candidate word has an approximate occurrence, and otherwise the single
\* match of the first such word (languages in candidate order, words in set
\* order) at the position its first accepting window yields.
C24_FuzzyFirstOnly ==
    (pc = "returned" /\ StageScanned = <<>> /\ StagePhrase = <<>>
        /\ config.detection.levenshteinDistance > 0) =>
        /\ Len(ret.detection.matches) <= 1
        /\ Len(StageFuzzy) <= 1
        /\ ret.detection.matches =
               IF AcceptedWords = {} THEN <<>> ELSE <<FirstAccepted(Least(AcceptedWords))>>

\* A fuzzy result on a text where two candidate words have an approximate
\* occurrence, reported at a position that is not the window's start
C24_TwoWordsAccepted ==
    /\ pc = "returned"
    /\ StageScanned = <<>>
    /\ config.detection.levenshteinDistance > 0
    /\ Cardinality(AcceptedWords) >= 2
    /\ Len(ret.detection.matches) = 1
    /\ ret.detection.matches[1].index = 1

----------------------------------------------------------------------------
(* The phrase matcher, checked under PhraseSpec                             *)

\* The tokens of the normalized text of the call, and the spans the phrase
\* matcher returns for them
CallTokens == TokenValues(tokenizeWithOffsets(NormalizedText))

CallSpans ==
    findAllMatchesForTokens(phraseTrie, CallTokens, Range(config.detection.phraseStopwords),
                            config.detection.phraseMaxSkips)

\* The tokens at the positions of keep, in order
RECURSIVE TokensAt(_, _)
TokensAt(tokens, keep) ==
    IF keep = {} THEN <<>>
    ELSE <<tokens[Least(keep)]>> \o TokensAt(tokens, keep \ {Least(keep)})

\* The span is the phrase with stop words skipped between its tokens: some
\* positions of the span, its first and its last among them, hold the phrase's
\* tokens in order, and the others hold stop words, at most phraseMaxSkips of them
IsPhraseWithSkips(span, phrase) ==
    \E keep \in SUBSET ((span.startTokenIndex + 1)..(span.endTokenIndex + 1)) :
        /\ (span.startTokenIndex + 1) \in keep
        /\ (span.endTokenIndex + 1) \in keep
        /\ TokensAt(CallTokens, keep) = phrase
        /\ \A i \in ((span.startTokenIndex + 1)..(span.endTokenIndex + 1)) \ keep :
               CallTokens[i] \in Range(config.detection.phraseStopwords)
        /\ (span.endTokenIndex - span.startTokenIndex + 1) - Cardinality(keep)
               <= config.detection.phraseMaxSkips

\* C25: when detect runs the phrase stage (the earlier stages found nothing and
\* a phrase is stored), every span the phrase matcher returns is one phrase of the tree, from
\* the phrase's first token to its last, with only stop words skipped in
\* between, at most phraseMaxSkips of them.
C25_SpanIsPhrase ==
    (pc = "returned" /\ StageScanned = <<>> /\ Len(phraseList) > 0) =>
        \A k \in 1..Len(CallSpans) :
            \E phrase \in phraseTrie.terminal : IsPhraseWithSkips(CallSpans[k], phrase)

\* The same for the spans that do not start on a stop word
C25_SpanFromPhraseToken ==
    (pc = "returned" /\ StageScanned = <<>> /\ Len(phraseList) > 0) =>
        \A k \in 1..Len(CallSpans) :
            CallTokens[CallSpans[k].startTokenIndex + 1]
                    \notin Range(config.detection.phraseStopwords) =>
                \E phrase \in phraseTrie.terminal : IsPhraseWithSkips(CallSpans[k], phrase)

----------------------------------------------------------------------------
(* The trie matcher on its own, checked under MatchSpec                     *)

\* The characters of the text of the call from position start to position
\* end (0-based, inclusive) that are not separators
Unseparated(start, end) ==
    SelectSeq(Slice(call.text, start, end + 1), LAMBDA c : c \notin call.separators)

\* The positions at which a word of the call ends that matches from start when
\* separators are skipped; with wholeWordsOnly, only those whose right
\* neighbour is not a word character
MatchEnds(start) ==
    {end \in start..(Len(call.text) - 1) :
        /\ call.text[end + 1] \notin call.separators
        /\ Contains(call.words, Unseparated(start, end))
        /\ call.wholeWordsOnly =>
               (end + 1 = Len(call.text) \/ ~WORD_CHAR(call.text[end + 2]))}

\* The starts the matcher tries: not a separator and, with wholeWordsOnly, not
\* preceded by a word character
TriedStarts ==
    {start \in 0..(Len(call.text) - 1) :
        /\ call.text[start + 1] \notin call.separators
        /\ call.wholeWordsOnly => (start = 0 \/ ~WORD_CHAR(call.text[start]))}

Greatest(S) == CHOOSE n \in S : \A m \in S : m <= n

\* C26: the trie matcher returns its spans in strictly increasing start order
\* (so at most one per start); the span of a start is the longest inserted
\* word that matches from it when separators are skipped (with
\* wholeWordsOnly, the longest whose right neighbour is not a word character),
\* it begins and ends on a character that is not a separator, and every start
\* the matcher tries from which a word matches has its span.
C26_TrieLongestPerStart ==
    pc = "matched" =>
        /\ \A i, j \in 1..Len(ret.trie) : i < j => ret.trie[i].index < ret.trie[j].index
        /\ \A k \in 1..Len(ret.trie) :
               /\ ret.trie[k].length >= 1
               /\ call.text[ret.trie[k].index + 1] \notin call.separators
               /\ call.text[ret.trie[k].index + ret.trie[k].length] \notin call.separators
               /\ MatchEnds(ret.trie[k].index) # {}
               /\ ret.trie[k].index + ret.trie[k].length - 1
                      = Greatest(MatchEnds(ret.trie[k].index))
        /\ \A start \in TriedStarts :
               MatchEnds(start) # {} => \E k \in 1..Len(ret.trie) : ret.trie[k].index = start

\* A span with a separator inside it, reported for a start from which a
\* shorter word matches as well
C26_LongestOfTwo ==
    /\ pc = "matched"
    /\ \E k \in 1..Len(ret.trie) :
           /\ Cardinality(MatchEnds(ret.trie[k].index)) >= 2
           /\ ret.trie[k].length > Len(Unseparated(ret.trie[k].index,
                                                   ret.trie[k].index + ret.trie[k].length - 1))

----------------------------------------------------------------------------
(* The life cycle of the automata, checked under RegistrySpec               *)

\* The word sets a language of RegistrySpec can hold: the pack words and the
\* added word, in any insertion order
RegistryWordSets ==
    {ws \in SeqsUpTo({EN_WORDS[1], languageWordMap["es"][1]} \cup RegistryWords, 3) :
        \A i, j \in 1..Len(ws) : i # j => ws[i] # ws[j]}

\* The automaton is what build leaves of a new automaton into which the
\* variants of some word set were inserted: nothing was inserted after build,
\* and build has run
SameNodes(ac, other) ==
    /\ Len(ac.nodes) = Len(other.nodes)
    /\ \A k \in 1..Len(ac.nodes) : ac.nodes[k] = other.nodes[k]

IsBuilt(ac) ==
    \E ws \in RegistryWordSets :
        SameNodes(ac, AhoBuild(AhoInsertAll(NewAhoCorasick, MatcherWords(This, ws))))

\* C27: every automaton stored in the registry has completed build: it is a
\* new automaton with words inserted and then built, never one still in the
\* inserting phase and never one with a word inserted after its build.
C27_AutomataBuilt ==
    \A code \in DOMAIN languageAutomata : IsBuilt(languageAutomata[code])

\* A stored automaton in which build set a failure link that the inserts
\* had left at the root
C27_FailureLinkStored ==
    \E code \in DOMAIN languageAutomata :
        \E k \in 1..Len(languageAutomata[code].nodes) :
            languageAutomata[code].nodes[k].fail # 0

----------------------------------------------------------------------------
(* Termination of detect, checked under Spec                                *)

\* C28: every detect call returns: in no state reachable through the
\* constructor and the mutators is a call left running for ever, also after
\* addWord of a word that normalizes to the empty string with inflections on.
C28_DetectReturns == pc # "hung"

\* A call is left running only when a word set holds the empty word
C28_HungOnlyOnEmptyWord ==
    pc = "hung" =>
        /\ config.detection.enableInflections
        /\ \E k \in 1..Len(languageWordlists) : Contains(languageWordlists[k].value, <<>>)

----------------------------------------------------------------------------
(* The reported spans and the text, checked under Spec                      *)

\* C29: every span of every detect result lies inside the text of the call:
\* index >= 0, length >= 1 and index + length <= the length of the text.
C29_SpansInsideText ==
    pc = "returned" =>
        \A k \in 1..Len(ret.detection.matches) :
            /\ ret.detection.matches[k].index >= 0
            /\ ret.detection.matches[k].length >= 1
            /\ ret.detection.matches[k].index + ret.detection.matches[k].length
                   <= Len(call.text)

\* The same when the text holds no U+0130 and no word set holds the empty word
C29_InsideWithoutIdot ==
    (/\ pc = "returned"
     /\ ~Contains(call.text, "Idot")
     /\ \A n \in 1..Len(languageWordlists) : ~Contains(languageWordlists[n].value, <<>>)) =>
        \A k \in 1..Len(ret.detection.matches) :
            /\ ret.detection.matches[k].index >= 0
            /\ ret.detection.matches[k].length >= 1
            /\ ret.detection.matches[k].index + ret.detection.matches[k].length
                   <= Len(call.text)

----------------------------------------------------------------------------
(* Added words under the language mutators, checked under RegistrySpec      *)

\* The words of the word set of a language that its pack does not hold: the
\* words addWord or customWords put there
AddedTo(code) ==
    IF ~MapHas(languageWordlists, code) THEN {}
    ELSE {w \in Range(MapGet(languageWordlists, code)) :
             ~(HasPack(code) /\ Contains(NormalizedSet(This, PackOf(code)), w))}

\* The instance after the call keeps every added word in the word set of its
\* language, and still detects it when its language is a candidate after the
\* call as it was before
KeepsAddedWords(after) ==
    \A k \in 1..Len(languageWordlists) :
        \A w \in AddedTo(languageWordlists[k].key) :
            /\ MapHas(after.languageWordlists, languageWordlists[k].key)
            /\ Contains(MapGet(after.languageWordlists, languageWordlists[k].key), w)
            /\ (/\ Contains(config.languages.enabled, languageWordlists[k].key)
                /\ Contains(after.config.languages.enabled, languageWordlists[k].key)
                /\ detect(This, w).hasProfanity)
                   => detect(after, w).hasProfanity

\* C30: setLanguages, loadLanguages and setAlgorithm leave every added word in
\* the word set of its language, and detectable while its language stays a
\* candidate.
C30_AddedWordsKept ==
    /\ \A enabled \in EnabledLists : KeepsAddedWords(setLanguages(This, enabled, "undefined"))
    /\ \A codes \in EnabledLists : KeepsAddedWords(loadLanguages(This, codes))
    /\ \A algorithm \in {"trie", "aho"} : KeepsAddedWords(setAlgorithm(This, algorithm))

\* The same for loadLanguages and setAlgorithm alone
C30_KeptByLoadAndAlgorithm ==
    /\ \A codes \in EnabledLists : KeepsAddedWords(loadLanguages(This, codes))
    /\ \A algorithm \in {"trie", "aho"} : KeepsAddedWords(setAlgorithm(This, algorithm))

====
